---- MODULE Spec2Model ----
(***************************************************************************)
(* Model of sublimehq/mmap-example: reading 64 bit integers out of a       *)
(* memory mapped file, with SIGBUS turned into a failed read by a          *)
(* sigsetjmp/siglongjmp recovery point (src/read_mmap.cc, and its          *)
(* cross-platform variant src/unnamed/part_001); src/unnamed/part_000 is   *)
(* the unguarded straight-line version of the same program.                *)
(*                                                                         *)
(* An int64_t is modelled by its object representation: the 8 bytes in     *)
(* address order.  The native-endian value is a bijection of it.           *)
(* size_t is SizeTBits wide (64 in the build), pages are PageSize bytes    *)
(* (4096 in the build).                                                    *)
(***************************************************************************)
EXTENDS Integers, Sequences, FiniteSets, TLC

\* ---------------------------------------------------------------- bounds
NThreads == 2
SizeTBits == 5
PageSize == 8
SmallSize == 3
MaxSize == 12
TruncStep == 4

\* ------------------------------------------------------ program constants
SizeOfInt64 == 8
SIGBUS == 7
SaveMask == 0

Threads == 1..NThreads
MainThread == 1
SizeMod == 2 ^ SizeTBits
SIZE_MAX == SizeMod - 1

\* size_t subtraction: unsigned, wraps modulo 2^SizeTBits
SubSizeT(a, b) == (a - b) % SizeMod

NULL == [size |-> 0, null |-> TRUE]

\* ------------------------------------------------------------ file images
Ramp(n) == [i \in 1..n |-> i]
File42 == [i \in 1..(2 * SizeOfInt64) |-> IF i = 1 THEN 42 ELSE 0]
FileSizes == {SmallSize, SizeOfInt64, MaxSize}
Files == {Ramp(n) : n \in FileSizes} \cup {File42}

NoValue == <<>>
Garbage == [i \in 0..(SizeOfInt64 - 1) |-> 255]

VARIABLES
    proc,            \* the process: running, exited, killed by a signal, aborted
    mainpc,          \* position of main()
    sigact,          \* disposition of SIGBUS (process-wide)
    installs,        \* number of sigaction(SIGBUS, ...) calls made so far
    disk,            \* bytes of the file when it was mapped
    live,            \* current length of the file on storage
    released,        \* release calls made on the mapping, in order
    f,               \* the file object returned by open_file
    stdout,          \* last line main printed
    pc,              \* per thread: position inside file::read / safe_mmap_try
    sigbus_jmp_set,  \* thread_local volatile bool, one slot per thread
    sigbus_jmp_buf,  \* thread_local sigjmp_buf, one slot per thread
    sigmask,         \* per thread: is SIGBUS blocked
    intr,            \* per thread: position the signal handler interrupted
    mode,            \* per thread: kind of call in progress (plain, outer, inner, resumed, unguarded)
    jmpval,          \* per thread: what sigsetjmp returned last
    offset,          \* per thread: argument of the read in progress
    result,          \* per thread: the caller's slot *result
    ret,             \* per thread: value returned by the read
    acc              \* per thread: what the memory access of the call in progress did

vars == <<proc, mainpc, sigact, installs, disk, live, released, f, stdout, pc,
          sigbus_jmp_set, sigbus_jmp_buf, sigmask, intr, mode, jmpval,
          offset, result, ret, acc>>

envvars == <<disk, live, released>>
mainvars == <<mainpc, stdout>>
sigvars == <<sigact, installs>>
tlsvars == <<sigbus_jmp_set, sigbus_jmp_buf>>
callvars == <<mode, offset, result, ret>>

Running == proc.st = "running"
Killed(t, sig) == [st |-> "killed", by |-> t, why |-> sig]
Aborted(t, what) == [st |-> "aborted", by |-> t, why |-> what]

\* one slot shared by all threads (the variables declared without thread_local)
TLSShared(t) == MainThread

\* thread_local: each thread uses its own slot
TLS(t) == t

NoBuf == [captured |-> FALSE, thread |-> 0, inner |-> FALSE, live |-> FALSE,
          hasmask |-> FALSE, mask |-> FALSE]

Init ==
    /\ proc = [st |-> "running", by |-> 0, why |-> "none"]
    /\ mainpc = "argc"
    /\ sigact = [handler |-> "SIG_DFL", nodefer |-> FALSE]
    /\ installs = 0
    /\ disk \in Files
    /\ live = Len(disk)
    /\ released = <<>>
    /\ f = NULL
    /\ stdout = <<"none", NoValue>>
    /\ pc = [t \in Threads |-> "idle"]
    /\ sigbus_jmp_set = [t \in Threads |-> FALSE]
    /\ sigbus_jmp_buf = [t \in Threads |-> NoBuf]
    /\ sigmask = [t \in Threads |-> FALSE]
    /\ intr = [t \in Threads |-> "none"]
    /\ mode = [t \in Threads |-> "plain"]
    /\ jmpval = [t \in Threads |-> 0]
    /\ offset = [t \in Threads |-> 0]
    /\ result = [t \in Threads |-> NoValue]
    /\ ret = [t \in Threads |-> "none"]
    /\ acc = [t \in Threads |-> "none"]

\* ------------------------------------------------------------ the mapping
\* mmap maps whole pages; a page is backed while the file still reaches it;
\* bytes of a backed page past the end of the file read as zero.
NPages(n) == (n + PageSize - 1) \div PageSize
InMapping(a) == ~f.null /\ released = <<>> /\ a >= 0 /\ a < NPages(f.size) * PageSize
Backed(a) == (a \div PageSize) < NPages(live)
ByteAt(a) == IF a < live THEN disk[a + 1] ELSE 0
Touched(o) == {o + i : i \in 0..(SizeOfInt64 - 1)}
BadAddrs(o) == {a \in Touched(o) : ~(InMapping(a) /\ Backed(a))}
FirstBad(o) == CHOOSE a \in BadAddrs(o) : \A b \in BadAddrs(o) : a <= b

\* the load taken one byte too far
LoadOffByOne(o) == [i \in 0..(SizeOfInt64 - 1) |-> ByteAt(o + i + 1)]

\* what the load *(int64_t*)((int8_t*)data + offset) does
AccessKind(o) ==
    IF BadAddrs(o) = {} THEN "ok"
    ELSE IF InMapping(FirstBad(o)) THEN "bus" ELSE "wild"

Load(o) == [i \in 0..(SizeOfInt64 - 1) |-> ByteAt(o + i)]

\* the storage shrinks after the file was mapped
Truncate ==
    /\ Running
    /\ ~f.null
    /\ \E n \in 0..(live - 1) :
         /\ n % TruncStep = 0
         /\ live' = n
    /\ UNCHANGED <<proc, mainpc, sigact, installs, disk, released, f, stdout, pc,
                   sigbus_jmp_set, sigbus_jmp_buf, sigmask, intr, mode, jmpval,
                   offset, result, ret, acc>>

\* ----------------------------------------------------------------- setup
\* sa_flags without SA_NODEFER: SIGBUS stays blocked while the handler runs
install_signal_handlers_defer ==
    /\ sigact' = [handler |-> "handle_sigbus", nodefer |-> FALSE]
    /\ installs' = installs + 1

install_signal_handlers ==
    /\ sigact' = [handler |-> "handle_sigbus", nodefer |-> TRUE]
    /\ installs' = installs + 1

OpenResults == {"stat_fail", "open_fail", "mmap_fail", "ok"}

open_file(r) ==
    IF r = "ok" THEN [size |-> Len(disk), null |-> FALSE] ELSE NULL

MainArgc ==
    /\ Running
    /\ mainpc = "argc"
    /\ \E argc \in {1, 2} :
         IF argc # 2
         THEN /\ proc' = [st |-> "exited", by |-> MainThread, why |-> "1"]
              /\ mainpc' = "done"
         ELSE /\ proc' = proc
              /\ mainpc' = "install"
    /\ UNCHANGED <<sigact, installs, disk, released, live, f, stdout, pc,
                   sigbus_jmp_set, sigbus_jmp_buf, sigmask, intr, mode, jmpval,
                   offset, result, ret, acc>>

\* main goes on without installing the handler
MainInstallSkipped ==
    /\ Running
    /\ mainpc = "install"
    /\ mainpc' = "open"
    /\ UNCHANGED <<proc, sigact, installs, disk, released, live, f, stdout, pc,
                   sigbus_jmp_set, sigbus_jmp_buf, sigmask, intr, mode, jmpval,
                   offset, result, ret, acc>>

MainInstall ==
    /\ Running
    /\ mainpc = "install"
    /\ install_signal_handlers
    /\ mainpc' = "open"
    /\ UNCHANGED <<proc, disk, released, live, f, stdout, pc,
                   sigbus_jmp_set, sigbus_jmp_buf, sigmask, intr, mode, jmpval,
                   offset, result, ret, acc>>

MainOpen ==
    /\ Running
    /\ mainpc = "open"
    /\ \E r \in OpenResults : f' = open_file(r)
    /\ mainpc' = "rng"
    /\ UNCHANGED <<proc, sigact, installs, disk, released, live, stdout, pc,
                   sigbus_jmp_set, sigbus_jmp_buf, sigmask, intr, mode, jmpval,
                   offset, result, ret, acc>>

\* main reads f->size to set up the distribution; f may be the null pointer
GarbageSizes == {SizeOfInt64, SIZE_MAX}

MainRng ==
    /\ Running
    /\ mainpc = "rng"
    /\ IF f.null
       THEN \E out \in {"segv", "garbage"} :
              IF out = "segv"
              THEN /\ proc' = Killed(MainThread, "SIGSEGV")
                   /\ UNCHANGED <<mainpc, f>>
              ELSE /\ \E g \in GarbageSizes : f' = [size |-> g, null |-> TRUE]
                   /\ mainpc' = "loop"
                   /\ proc' = proc
       ELSE /\ mainpc' = "loop"
            /\ UNCHANGED <<proc, f>>
    /\ UNCHANGED <<sigact, installs, disk, released, live, stdout, pc,
                   sigbus_jmp_set, sigbus_jmp_buf, sigmask, intr, mode, jmpval,
                   offset, result, ret, acc>>

\* --------------------------------------------------------------- callers
StartCall(t, o, m, at) ==
    /\ pc' = [pc EXCEPT ![t] = at]
    /\ mode' = [mode EXCEPT ![t] = m]
    /\ offset' = [offset EXCEPT ![t] = o]
    /\ result' = [result EXCEPT ![t] = NoValue]
    /\ ret' = [ret EXCEPT ![t] = "none"]
    /\ acc' = [acc EXCEPT ![t] = "none"]
    /\ jmpval' = [jmpval EXCEPT ![t] = 0]
    /\ UNCHANGED <<proc, mainpc, sigact, installs, disk, released, live, f, stdout,
                   sigbus_jmp_set, sigbus_jmp_buf, sigmask, intr>>

CanCall(t) == Running /\ mainpc = "loop" /\ pc[t] = "idle"

\* a thread calls f->read(o, &value) with any size_t offset
CallRead(t) ==
    /\ CanCall(t) /\ ~f.null
    /\ \E o \in 0..SIZE_MAX : StartCall(t, o, "plain", "read_assert")

\* a thread calls safe_mmap_try(fn) with an fn that itself calls f->read
NestedOffsets == {0}

CallNested(t) ==
    /\ CanCall(t) /\ ~f.null
    /\ \E o \in NestedOffsets : StartCall(t, o, "outer", "try_assert")

\* a thread reads the mapping without a recovery point (part_000's file::read)
UnguardedOffsets == {0, SizeOfInt64}

CallUnguarded(t) ==
    /\ CanCall(t) /\ ~f.null
    /\ \E o \in UnguardedOffsets : StartCall(t, o, "unguarded", "uread_assert")

\* main's loop: offset = random(rng), uniform over [0, f->size - sizeof(int64_t)]
MainLoopCall ==
    /\ CanCall(MainThread)
    /\ \E o \in 0..SubSizeT(f.size, SizeOfInt64) :
         StartCall(MainThread, o, "plain", "read_assert")

\* --------------------------------------------------------------- signals
Default == [handler |-> "SIG_DFL", nodefer |-> FALSE]

\* the handler connected to every fault signal, not to SIGBUS alone
DispositionAll(sig) == sigact

\* sigaction is called for SIGBUS only: every other signal keeps its default
Disposition(sig) == IF sig = "SIGBUS" THEN sigact ELSE Default

\* the kernel raises the fault signal sig on thread t: default action or
\* blocked signal kills the process, otherwise the handler runs on t
Raise(t, sig) ==
    IF Disposition(sig).handler = "SIG_DFL" \/ sigmask[t]
    THEN /\ proc' = Killed(t, sig)
         /\ UNCHANGED <<pc, intr, sigmask>>
    ELSE /\ pc' = [pc EXCEPT ![t] = "handler"]
         /\ intr' = [intr EXCEPT ![t] = pc[t]]
         /\ sigmask' = [sigmask EXCEPT ![t] = ~Disposition(sig).nodefer]
         /\ proc' = proc

RaiseSigbus(t) == Raise(t, "SIGBUS")

\* a byte-by-byte copy: the bytes before the faulting one reach the slot
AccessBytewise(t, done) ==
    LET kind == AccessKind(offset[t]) IN
    /\ acc' = [acc EXCEPT ![t] = kind]
    /\ IF kind = "ok"
       THEN /\ result' = [result EXCEPT ![t] = Load(offset[t])]
            /\ pc' = [pc EXCEPT ![t] = done]
            /\ UNCHANGED <<proc, intr, sigmask>>
       ELSE /\ Raise(t, IF kind = "bus" THEN "SIGBUS" ELSE "SIGSEGV")
            /\ result' = [result EXCEPT ![t] =
                 [i \in 0..(FirstBad(offset[t]) - offset[t] - 1) |-> ByteAt(offset[t] + i)]]

\* the 8 byte load at data + offset, on thread t; done is where a completed load continues
Access(t, done) ==
    LET kind == AccessKind(offset[t]) IN
    /\ acc' = [acc EXCEPT ![t] = kind]
    /\ IF kind = "ok"
       THEN /\ result' = [result EXCEPT ![t] = Load(offset[t])]
            /\ pc' = [pc EXCEPT ![t] = done]
            /\ UNCHANGED <<proc, intr, sigmask>>
       ELSE IF kind = "bus"
       THEN /\ RaiseSigbus(t)
            /\ UNCHANGED result
       ELSE \E out \in {"segv", "garbage"} :
              IF out = "segv"
              THEN /\ Raise(t, "SIGSEGV")
                   /\ UNCHANGED result
              ELSE /\ result' = [result EXCEPT ![t] = Garbage]
                   /\ pc' = [pc EXCEPT ![t] = done]
                   /\ UNCHANGED <<proc, intr, sigmask>>

\* ------------------------------------------------- part_000: file::read
BoundsOk(o) == o <= SubSizeT(f.size, SizeOfInt64)

UReadAssert(t) ==
    /\ Running
    /\ pc[t] = "uread_assert"
    /\ IF BoundsOk(offset[t])
       THEN /\ pc' = [pc EXCEPT ![t] = "uread_deref"]
            /\ proc' = proc
       ELSE /\ proc' = Aborted(t, "bounds")
            /\ pc' = pc
    /\ UNCHANGED <<mainpc, sigact, installs, disk, released, live, f, stdout,
                   sigbus_jmp_set, sigbus_jmp_buf, sigmask, intr, mode, jmpval,
                   offset, result, ret, acc>>

UReadDeref(t) ==
    /\ Running
    /\ pc[t] = "uread_deref"
    /\ Access(t, "returned")
    /\ ret' = [ret EXCEPT ![t] = IF pc'[t] = "returned" THEN "value" ELSE ret[t]]
    /\ UNCHANGED <<mainpc, sigact, installs, disk, released, live, f, stdout,
                   sigbus_jmp_set, sigbus_jmp_buf, mode, jmpval, offset>>

\* ------------------------------------------------ read_mmap.cc: file::read
ReadAssert(t) ==
    /\ Running
    /\ pc[t] = "read_assert"
    /\ IF BoundsOk(offset[t])
       THEN /\ pc' = [pc EXCEPT ![t] = "try_assert"]
            /\ proc' = proc
       ELSE /\ proc' = Aborted(t, "bounds")
            /\ pc' = pc
    /\ UNCHANGED <<mainpc, sigact, installs, disk, released, live, f, stdout,
                   sigbus_jmp_set, sigbus_jmp_buf, sigmask, intr, mode, jmpval,
                   offset, result, ret, acc>>

\* the lambda passed by file::read: *result = *(int64_t*)((int8_t*)data + offset)
ReadFn(t) ==
    /\ Running
    /\ pc[t] = "fn"
    /\ mode[t] # "outer"
    /\ Access(t, "try_clear_ok")
    /\ UNCHANGED <<mainpc, sigact, installs, disk, released, live, f, stdout,
                   sigbus_jmp_set, sigbus_jmp_buf, mode, jmpval, offset, ret>>

\* an fn that calls f->read(offset, &value) again
NestedFn(t) ==
    /\ Running
    /\ pc[t] = "fn"
    /\ mode[t] = "outer"
    /\ pc' = [pc EXCEPT ![t] = "read_assert"]
    /\ mode' = [mode EXCEPT ![t] = "inner"]
    /\ UNCHANGED <<proc, mainpc, sigact, installs, disk, released, live, f, stdout,
                   sigbus_jmp_set, sigbus_jmp_buf, sigmask, intr, jmpval,
                   offset, result, ret, acc>>

\* ------------------------------------------------------- safe_mmap_try
\* the assertion left out
TryAssertOff(t) ==
    /\ Running
    /\ pc[t] = "try_assert"
    /\ pc' = [pc EXCEPT ![t] = "try_arm"]
    /\ UNCHANGED <<proc, mainpc, sigact, installs, disk, released, live, f, stdout,
                   sigbus_jmp_set, sigbus_jmp_buf, sigmask, intr, mode, jmpval,
                   offset, result, ret, acc>>

\* assert(!sigbus_jmp_set)
TryAssert(t) ==
    /\ Running
    /\ pc[t] = "try_assert"
    /\ IF ~sigbus_jmp_set[TLS(t)]
       THEN /\ pc' = [pc EXCEPT ![t] = "try_arm"]
            /\ proc' = proc
       ELSE /\ proc' = Aborted(t, "nested")
            /\ pc' = pc
    /\ UNCHANGED <<mainpc, sigact, installs, disk, released, live, f, stdout,
                   sigbus_jmp_set, sigbus_jmp_buf, sigmask, intr, mode, jmpval,
                   offset, result, ret, acc>>

\* sigbus_jmp_set = true
TryArm(t) ==
    /\ Running
    /\ pc[t] = "try_arm"
    /\ sigbus_jmp_set' = [sigbus_jmp_set EXCEPT ![TLS(t)] = TRUE]
    /\ pc' = [pc EXCEPT ![t] = "try_setjmp"]
    /\ UNCHANGED <<proc, mainpc, sigact, installs, disk, released, live, f, stdout,
                   sigbus_jmp_buf, sigmask, intr, mode, jmpval,
                   offset, result, ret, acc>>

\* sigsetjmp(sigbus_jmp_buf, 0): the direct call returns 0
sigsetjmp(t, savemask) ==
    [captured |-> TRUE, thread |-> t, inner |-> (mode[t] = "inner"), live |-> TRUE,
     hasmask |-> (savemask # 0), mask |-> (savemask # 0 /\ sigmask[t])]

TrySetjmp(t) ==
    /\ Running
    /\ pc[t] = "try_setjmp"
    /\ sigbus_jmp_buf' = [sigbus_jmp_buf EXCEPT ![TLS(t)] = sigsetjmp(t, SaveMask)]
    /\ jmpval' = [jmpval EXCEPT ![t] = 0]
    /\ pc' = [pc EXCEPT ![t] = "fn"]
    /\ UNCHANGED <<proc, mainpc, sigact, installs, disk, released, live, f, stdout,
                   sigbus_jmp_set, sigmask, intr, mode,
                   offset, result, ret, acc>>

\* the frame of safe_mmap_try on thread t returns: a jump buffer it filled is dead
FrameReturns(t) ==
    LET buf == sigbus_jmp_buf[TLS(t)] IN
    sigbus_jmp_buf' =
        IF buf.captured /\ buf.thread = t /\ buf.inner = (mode[t] = "inner")
        THEN [sigbus_jmp_buf EXCEPT ![TLS(t)].live = FALSE]
        ELSE sigbus_jmp_buf

\* the success path returning without clearing the flag
TryClearOkKeepsFlag(t) ==
    /\ Running
    /\ pc[t] = "try_clear_ok"
    /\ ret' = [ret EXCEPT ![t] = "true"]
    /\ pc' = [pc EXCEPT ![t] = "returned"]
    /\ FrameReturns(t)
    /\ UNCHANGED <<proc, mainpc, sigact, installs, disk, released, live, f, stdout,
                   sigbus_jmp_set, sigmask, intr, mode, jmpval, offset, result, acc>>

\* fn() returned: sigbus_jmp_set = false; return true
TryClearOk(t) ==
    /\ Running
    /\ pc[t] = "try_clear_ok"
    /\ sigbus_jmp_set' = [sigbus_jmp_set EXCEPT ![TLS(t)] = FALSE]
    /\ ret' = [ret EXCEPT ![t] = "true"]
    /\ pc' = [pc EXCEPT ![t] = "returned"]
    /\ FrameReturns(t)
    /\ UNCHANGED <<proc, mainpc, sigact, installs, disk, released, live, f, stdout,
                   sigmask, intr, mode, jmpval, offset, result, acc>>

\* the fault path writing true where it should write false
TryElseSetsFlag(t) ==
    /\ Running
    /\ pc[t] = "try_else"
    /\ sigbus_jmp_set' = [sigbus_jmp_set EXCEPT ![TLS(t)] = TRUE]
    /\ ret' = [ret EXCEPT ![t] = "false"]
    /\ pc' = [pc EXCEPT ![t] = "returned"]
    /\ FrameReturns(t)
    /\ UNCHANGED <<proc, mainpc, sigact, installs, disk, released, live, f, stdout,
                   sigmask, intr, mode, jmpval, offset, result, acc>>

\* sigsetjmp returned nonzero: sigbus_jmp_set = false; return false
TryElse(t) ==
    /\ Running
    /\ pc[t] = "try_else"
    /\ sigbus_jmp_set' = [sigbus_jmp_set EXCEPT ![TLS(t)] = FALSE]
    /\ ret' = [ret EXCEPT ![t] = "false"]
    /\ pc' = [pc EXCEPT ![t] = "returned"]
    /\ FrameReturns(t)
    /\ UNCHANGED <<proc, mainpc, sigact, installs, disk, released, live, f, stdout,
                   sigmask, intr, mode, jmpval, offset, result, acc>>

\* ---------------------------------------------------------- handle_sigbus
\* a jump after which sigsetjmp reports 0 again, so the guarded code is rerun
siglongjmp_zero(t, c) ==
    /\ jmpval' = [jmpval EXCEPT ![t] = 0]
    /\ pc' = [pc EXCEPT ![t] = "fn"]
    /\ UNCHANGED <<proc, mode, sigmask>>

\* siglongjmp(sigbus_jmp_buf, c) on thread t: sigsetjmp returns again, with c
\* (1 if c is 0), in the frame that filled the buffer.  A buffer never filled,
\* filled by another thread, or whose frame has returned: undefined behaviour.
siglongjmp(t, c) ==
    LET buf == sigbus_jmp_buf[TLS(t)]
        v == IF c = 0 THEN 1 ELSE c
    IN IF buf.captured /\ buf.live /\ buf.thread = t
       THEN /\ jmpval' = [jmpval EXCEPT ![t] = v]
            /\ pc' = [pc EXCEPT ![t] = IF v = 0 THEN "fn" ELSE "try_else"]
            /\ mode' = [mode EXCEPT ![t] =
                          IF mode[t] = "inner" /\ ~buf.inner THEN "resumed" ELSE mode[t]]
            /\ sigmask' = [sigmask EXCEPT ![t] =
                             IF buf.hasmask THEN buf.mask ELSE sigmask[t]]
            /\ proc' = proc
       ELSE \E out \in {"crash", "stale"} :
              IF out = "crash"
              THEN /\ proc' = Killed(t, "SIGSEGV")
                   /\ UNCHANGED <<jmpval, pc, mode, sigmask>>
              ELSE /\ jmpval' = [jmpval EXCEPT ![t] = v]
                   /\ pc' = [pc EXCEPT ![t] = "try_else"]
                   /\ UNCHANGED <<proc, mode, sigmask>>

\* the handler returns normally: the signal mask of before is restored and the
\* interrupted instruction runs again (undefined by POSIX for a SIGBUS the
\* hardware raised: the build may also die)
HandlerReturns(t) ==
    /\ sigmask' = [sigmask EXCEPT ![t] = FALSE]
    /\ \E out \in {"resume", "die"} :
         IF out = "resume"
         THEN /\ pc' = [pc EXCEPT ![t] = intr[t]]
              /\ proc' = proc
         ELSE /\ proc' = Killed(t, "SIGBUS")
              /\ pc' = pc
    /\ UNCHANGED <<sigbus_jmp_set, jmpval, mode>>

\* a handler that clears the flag and returns instead of jumping
handle_sigbus_returns(t) ==
    /\ Running
    /\ pc[t] = "handler"
    /\ sigbus_jmp_set' = [sigbus_jmp_set EXCEPT ![TLS(t)] = FALSE]
    /\ sigmask' = [sigmask EXCEPT ![t] = FALSE]
    /\ pc' = [pc EXCEPT ![t] = intr[t]]
    /\ intr' = [intr EXCEPT ![t] = "none"]
    /\ UNCHANGED <<proc, mainpc, sigact, installs, disk, released, live, f, stdout,
                   sigbus_jmp_buf, jmpval, mode, offset, result, ret, acc>>

handle_sigbus(t) ==
    /\ Running
    /\ pc[t] = "handler"
    /\ IF sigbus_jmp_set[TLS(t)]
       THEN /\ sigbus_jmp_set' = [sigbus_jmp_set EXCEPT ![TLS(t)] = FALSE]
            /\ siglongjmp(t, SIGBUS)
       ELSE HandlerReturns(t)
    /\ intr' = [intr EXCEPT ![t] = "none"]
    /\ UNCHANGED <<mainpc, sigact, installs, disk, released, live, f, stdout,
                   sigbus_jmp_buf, offset, result, ret, acc>>

\* a SIGBUS sent to thread t (kill, pthread_kill) is delivered between two of
\* its steps; handle_sigbus runs on t and, when the flag is not set, returns
\* to where t was
AsyncSigbus(t) ==
    /\ Running
    /\ pc[t] # "handler"
    /\ ~sigmask[t]
    /\ IF Disposition("SIGBUS").handler = "SIG_DFL"
       THEN /\ proc' = Killed(t, "SIGBUS")
            /\ UNCHANGED <<pc, mode, jmpval, sigmask, sigbus_jmp_set>>
       ELSE IF sigbus_jmp_set[TLS(t)]
       THEN /\ sigbus_jmp_set' = [sigbus_jmp_set EXCEPT ![TLS(t)] = FALSE]
            /\ siglongjmp(t, SIGBUS)
       ELSE UNCHANGED <<proc, pc, mode, jmpval, sigmask, sigbus_jmp_set>>
    /\ UNCHANGED <<mainpc, sigact, installs, disk, released, live, f, stdout,
                   sigbus_jmp_buf, intr, offset, result, ret, acc>>

\* -------------------------------------------------------------- returning
EndCall(t) ==
    IF mode[t] = "inner"
    THEN /\ pc' = [pc EXCEPT ![t] = "try_clear_ok"]
         /\ mode' = [mode EXCEPT ![t] = "resumed"]
         /\ UNCHANGED <<offset, result, ret, acc, jmpval>>
    ELSE /\ pc' = [pc EXCEPT ![t] = "idle"]
         /\ mode' = [mode EXCEPT ![t] = "plain"]
         /\ offset' = [offset EXCEPT ![t] = 0]
         /\ result' = [result EXCEPT ![t] = NoValue]
         /\ ret' = [ret EXCEPT ![t] = "none"]
         /\ acc' = [acc EXCEPT ![t] = "none"]
         /\ jmpval' = [jmpval EXCEPT ![t] = 0]

\* the caller takes the result; its slot goes out of scope
Return(t) ==
    /\ Running
    /\ pc[t] = "returned"
    /\ EndCall(t)
    /\ UNCHANGED <<proc, mainpc, sigact, installs, disk, released, live, f, stdout,
                   sigbus_jmp_set, sigbus_jmp_buf, sigmask, intr>>

\* main prints the value, or "Failed to read", and loops
MainPrint ==
    /\ Running
    /\ pc[MainThread] = "returned"
    /\ stdout' = IF ret[MainThread] = "true"
                 THEN <<"value", result[MainThread]>>
                 ELSE <<"Failed to read", NoValue>>
    /\ EndCall(MainThread)
    /\ UNCHANGED <<proc, mainpc, sigact, installs, disk, released, live, f,
                   sigbus_jmp_set, sigbus_jmp_buf, sigmask, intr>>

\* ------------------------------------- part_001, _WIN32: safe_mmap_try
\* the filter of __except: only an in-page error is handled here
ExceptionFilter(code) ==
    IF code = "EXCEPTION_IN_PAGE_ERROR"
    THEN "EXCEPTION_EXECUTE_HANDLER"
    ELSE "EXCEPTION_CONTINUE_SEARCH"

\* main's loop in the Windows build
WinLoopCall ==
    /\ CanCall(MainThread) /\ ~f.null
    /\ \E o \in 0..SubSizeT(f.size, SizeOfInt64) :
         StartCall(MainThread, o, "windows", "win_assert")

WinReadAssert(t) ==
    /\ Running
    /\ pc[t] = "win_assert"
    /\ IF BoundsOk(offset[t])
       THEN /\ pc' = [pc EXCEPT ![t] = "win_try"]
            /\ proc' = proc
       ELSE /\ proc' = Aborted(t, "bounds")
            /\ pc' = pc
    /\ UNCHANGED <<mainpc, sigact, installs, disk, released, live, f, stdout,
                   sigbus_jmp_set, sigbus_jmp_buf, sigmask, intr, mode, jmpval,
                   offset, result, ret, acc>>

\* __try { fn(); return true; } __except (filter) { return false; }
\* an exception the filter passes on is unhandled and ends the process
WinTry(t) ==
    LET kind == AccessKind(offset[t])
        code == IF kind = "bus" THEN "EXCEPTION_IN_PAGE_ERROR"
                ELSE "EXCEPTION_ACCESS_VIOLATION"
    IN
    /\ Running
    /\ pc[t] = "win_try"
    /\ acc' = [acc EXCEPT ![t] = kind]
    /\ \E out \in {"fault", "garbage"} :
         IF kind = "ok" \/ (kind = "wild" /\ out = "garbage")
         THEN /\ result' = [result EXCEPT ![t] =
                              IF kind = "ok" THEN Load(offset[t]) ELSE Garbage]
              /\ ret' = [ret EXCEPT ![t] = "true"]
              /\ pc' = [pc EXCEPT ![t] = "returned"]
              /\ proc' = proc
         ELSE IF ExceptionFilter(code) = "EXCEPTION_EXECUTE_HANDLER"
         THEN /\ ret' = [ret EXCEPT ![t] = "false"]
              /\ pc' = [pc EXCEPT ![t] = "returned"]
              /\ UNCHANGED <<proc, result>>
         ELSE /\ proc' = Killed(t, code)
              /\ UNCHANGED <<pc, ret, result>>
    /\ UNCHANGED <<mainpc, sigact, installs, disk, released, live, f, stdout,
                   sigbus_jmp_set, sigbus_jmp_buf, sigmask, intr, mode, jmpval,
                   offset>>

\* ------------------------------------------------------------ destruction
Builds == {"posix", "windows"}

\* a base destructor that releases the mapping as well as the derived one
file_destructor_twice(b) ==
    IF b = "windows" THEN <<"UnmapViewOfFile", "CloseHandle", "UnmapViewOfFile">>
    ELSE <<"munmap", "munmap">>

\* the release calls ~file makes: munmap(data, size); in the Windows build
\* ~windows_file unmaps the view and then closes the mapping handle
file_destructor(b) ==
    IF b = "windows" THEN <<"UnmapViewOfFile", "CloseHandle">>
    ELSE <<"munmap">>

\* delete f; return 0;  The loop of main has no exit, so main itself never
\* gets here: this is an owner that stops reading between two reads.
MainDelete ==
    /\ Running
    /\ mainpc = "loop"
    /\ pc[MainThread] = "idle"
    /\ ~f.null
    /\ \E b \in Builds : released' = released \o file_destructor(b)
    /\ proc' = [st |-> "exited", by |-> MainThread, why |-> "0"]
    /\ mainpc' = "done"
    /\ UNCHANGED <<sigact, installs, disk, live, f, stdout, pc,
                   sigbus_jmp_set, sigbus_jmp_buf, sigmask, intr, mode, jmpval,
                   offset, result, ret, acc>>

\* ---------------------------------------------------------- specifications
Setup == MainArgc \/ MainInstall \/ MainOpen \/ MainRng

\* any number of threads calling into the reader, in any order
Next ==
    \/ Setup
    \/ Truncate
    \/ \E t \in Threads :
         \/ CallRead(t)
         \/ CallNested(t)
         \/ CallUnguarded(t)
         \/ UReadAssert(t)
         \/ UReadDeref(t)
         \/ ReadAssert(t)
         \/ TryAssert(t)
         \/ TryArm(t)
         \/ TrySetjmp(t)
         \/ ReadFn(t)
         \/ NestedFn(t)
         \/ handle_sigbus(t)
         \/ TryClearOk(t)
         \/ TryElse(t)
         \/ Return(t)

Spec == Init /\ [][Next]_vars

\* the program as written: main alone
MainStep ==
    \/ MainLoopCall
    \/ ReadAssert(MainThread)
    \/ TryAssert(MainThread)
    \/ TryArm(MainThread)
    \/ TrySetjmp(MainThread)
    \/ ReadFn(MainThread)
    \/ handle_sigbus(MainThread)
    \/ TryClearOk(MainThread)
    \/ TryElse(MainThread)
    \/ MainPrint

NextMain == Setup \/ Truncate \/ MainStep

SpecMain == Init /\ [][NextMain]_vars

\* the main thread keeps running: a step it can take is eventually taken
SpecMainFair == SpecMain /\ WF_vars(MainStep)

\* main, and an owner that may stop and destroy the region; nothing makes it
\* stop, so only the steps of the running thread are fair
NextLife == NextMain \/ MainDelete

SpecLife == Init /\ [][NextLife]_vars

SpecLifeFair == SpecLife /\ WF_vars(MainStep)

\* main, with SIGBUS also sent to its thread from outside at any moment
NextAsync == NextMain \/ AsyncSigbus(MainThread)

SpecAsync == Init /\ [][NextAsync]_vars

\* main in both builds: reads through the POSIX and through the Windows
\* safe_mmap_try
WinStep == WinLoopCall \/ WinReadAssert(MainThread) \/ WinTry(MainThread)

NextBuilds == NextMain \/ WinStep

SpecBuilds == Init /\ [][NextBuilds]_vars

\* ================================================================= claims
Flag(t) == sigbus_jmp_set[TLS(t)]
ValidOffset(t) == ~f.null /\ offset[t] + SizeOfInt64 <= f.size
Stable == live = Len(disk)
\* the 8 bytes of the file at offset o, in address order
FileBytes(o) == [i \in 0..(SizeOfInt64 - 1) |-> disk[o + i + 1]]
InRead(t) == pc[t] # "idle" /\ mode[t] = "plain"
Returned(t) == pc[t] = "returned" /\ mode[t] = "plain"
PrevReadFailed == stdout[1] = "Failed to read"

\* C1: on every thread the flag sigbus_jmp_set is false right before a guarded
\* read is called (the thread is idle, or has entered file::read or the outer
\* safe_mmap_try and not yet armed) and false again once the call has returned,
\* whether it returned true or false.
C1_FlagFalseAroundRead ==
    \A t \in Threads :
        (mode[t] # "inner" /\ pc[t] \in {"idle", "read_assert", "try_assert", "try_arm", "returned"})
            => ~Flag(t)

C1_Witness ==
    \E t, u \in Threads :
        /\ Returned(t) /\ ret[t] = "false" /\ acc[t] = "bus" /\ ~Flag(t)
        /\ Returned(u) /\ ret[u] = "true" /\ acc[u] = "ok" /\ ~Flag(u)

\* C2: in the program, a guarded read whose access raised SIGBUS (the handler is
\* installed) does not end the process: control is in the handler, in the fault
\* branch, or back in the caller with the result false; also when the read
\* before it had faulted.
C2_FaultBecomesReadFault ==
    (acc[MainThread] = "bus" /\ mode[MainThread] = "plain")
        => /\ sigact.handler = "handle_sigbus"
           /\ proc.st = "running"
           /\ pc[MainThread] \in {"handler", "try_else", "returned"}
           /\ (pc[MainThread] = "returned" => ret[MainThread] = "false")

C2_Witness ==
    /\ PrevReadFailed
    /\ Returned(MainThread)
    /\ acc[MainThread] = "bus"
    /\ ret[MainThread] = "false"
    /\ proc.st = "running"

\* C3 (as claimed): when code that holds no recovery point faults, the process
\* is terminated by SIGBUS once the handler is done; the faulting code does not
\* run again.
C3_UnguardedFaultTerminates ==
    \A t \in Threads :
        (mode[t] = "unguarded" /\ acc[t] = "bus" /\ pc[t] # "handler")
            => (proc.st = "killed" /\ proc.by = t /\ proc.why = "SIGBUS")

\* C4: on a file that was never truncated, a guarded read at an offset with
\* offset + 8 <= size does not fault or abort, returns true, and leaves in
\* *result the 8 bytes of the file at that offset: the same bytes the unguarded
\* read of part_000 returns for that offset.
C4_GuardedReadValue ==
    \A t \in Threads :
        (InRead(t) /\ ValidOffset(t) /\ Stable)
            => /\ pc[t] \notin {"handler", "try_else"}
               /\ ~(proc.st \in {"killed", "aborted"} /\ proc.by = t)
               /\ (pc[t] = "returned"
                     => /\ ret[t] = "true"
                        /\ result[t] = FileBytes(offset[t])
                        /\ \A u \in Threads :
                             (pc[u] = "returned" /\ mode[u] = "unguarded"
                                 /\ offset[u] = offset[t])
                                 => result[u] = result[t])

C4_Witness ==
    /\ disk = File42
    /\ Stable
    /\ \E t, u \in Threads :
         /\ Returned(t) /\ offset[t] = 0 /\ ret[t] = "true"
         /\ result[t] = [i \in 0..(SizeOfInt64 - 1) |-> IF i = 0 THEN 42 ELSE 0]
         /\ Returned(u) /\ offset[u] = SizeOfInt64 /\ ret[u] = "true"
         /\ result[u] = [i \in 0..(SizeOfInt64 - 1) |-> 0]

\* C5 (as claimed): a read with offset + 8 > size stops at the bounds assertion
\* of file::read: it never gets to safe_mmap_try, never arms the flag and never
\* touches the mapping.
C5_OutOfBoundsAsserts ==
    \A t \in Threads :
        (InRead(t) /\ ~f.null /\ offset[t] + SizeOfInt64 > f.size)
            => /\ pc[t] = "read_assert"
               /\ ~Flag(t)
               /\ acc[t] = "none"

\* C6: a guarded read called from inside the fn of another guarded read on the
\* same thread gets no further than the assertion of safe_mmap_try: the flag and
\* the jump buffer stay those of the outer call, the inner access is not made and
\* nothing is returned.
C6_NestedFailsFast ==
    \A t \in Threads :
        mode[t] = "inner"
            => /\ pc[t] \in {"read_assert", "try_assert"}
               /\ Flag(t)
               /\ sigbus_jmp_buf[TLS(t)].live /\ ~sigbus_jmp_buf[TLS(t)].inner
               /\ acc[t] = "none"
               /\ ret[t] = "none"
               /\ (proc.st = "aborted" /\ proc.by = t => proc.why = "nested")

C6_Witness ==
    \E t \in Threads :
        /\ mode[t] = "inner" /\ pc[t] = "try_assert"
        /\ proc = Aborted(t, "nested")

\* C7: in the program, when the read before returned false, a read at an offset
\* whose 8 bytes are all still stored does not fault or abort and returns true
\* with those 8 bytes.
C7_ReadAfterFault ==
    (PrevReadFailed /\ InRead(MainThread) /\ ValidOffset(MainThread)
        /\ offset[MainThread] + SizeOfInt64 <= live)
        => /\ proc.st = "running"
           /\ pc[MainThread] \notin {"handler", "try_else"}
           /\ (pc[MainThread] = "returned"
                 => /\ ret[MainThread] = "true"
                    /\ result[MainThread] = FileBytes(offset[MainThread]))

C7_Witness ==
    /\ PrevReadFailed
    /\ Returned(MainThread)
    /\ offset[MainThread] + SizeOfInt64 <= live
    /\ ret[MainThread] = "true"
    /\ result[MainThread] = FileBytes(offset[MainThread])

\* C8: a step that raises or handles a fault on thread a leaves every other
\* thread b as it was (flag, jump buffer, position, result slot, return value);
\* and a thread reading 8 bytes that are all still stored returns true with
\* those bytes, whatever the other threads do.
C8_FaultStep(a) ==
    /\ pc[a] \in {"fn", "handler"}
    /\ acc'[a] = "bus"
    /\ <<pc[a], sigbus_jmp_set[TLS(a)], proc>> # <<pc'[a], sigbus_jmp_set'[TLS(a)], proc'>>

C8_OthersUntouched ==
    \A a, b \in Threads :
        (a # b /\ C8_FaultStep(a))
            => /\ sigbus_jmp_set'[TLS(b)] = sigbus_jmp_set[TLS(b)]
               /\ sigbus_jmp_buf'[TLS(b)] = sigbus_jmp_buf[TLS(b)]
               /\ pc'[b] = pc[b]
               /\ result'[b] = result[b]
               /\ ret'[b] = ret[b]

C8_ValidReadsCorrect ==
    \A t \in Threads :
        (InRead(t) /\ ValidOffset(t) /\ offset[t] + SizeOfInt64 <= live)
            => /\ pc[t] \notin {"handler", "try_else"}
               /\ ~(proc.st \in {"killed", "aborted"} /\ proc.by = t)
               /\ (pc[t] = "returned"
                     => ret[t] = "true" /\ result[t] = FileBytes(offset[t]))

C8_ThreadsIndependent == [][C8_OthersUntouched]_vars /\ []C8_ValidReadsCorrect

C8_Witness ==
    \E a, b \in Threads :
        /\ a # b
        /\ Returned(a) /\ acc[a] = "bus" /\ ret[a] = "false"
        /\ Returned(b) /\ offset[b] + SizeOfInt64 <= live
        /\ ret[b] = "true" /\ result[b] = FileBytes(offset[b])

\* C9 (as claimed): every execution installs the handler exactly once: a process
\* that has exited has made exactly one sigaction call for SIGBUS.
C9_EveryExecutionInstalls == proc.st = "exited" => installs = 1

\* C9 (amended): sigaction is called at most once; once main is past the
\* argument check and the install step it has been called exactly once and the
\* handler is in place, so a guarded read only ever runs with the handler
\* installed.
C9_InstalledBeforeReads ==
    /\ installs <= 1
    /\ (mainpc \in {"open", "rng", "loop"}
          => installs = 1 /\ sigact.handler = "handle_sigbus")
    /\ \A t \in Threads :
         pc[t] # "idle" => (installs = 1 /\ sigact.handler = "handle_sigbus")

C9_Witness ==
    /\ installs = 1
    /\ pc[MainThread] = "fn"
    /\ sigact.handler = "handle_sigbus"

\* C10: a guarded read of the program moves Idle -> RecoveryArmed -> Completed
\* -> Idle and in no other way; the flag is set exactly from arming until the
\* handler or the success path clears it; the read returns true exactly when
\* the access completed and false exactly when it faulted; and once the access
\* has completed or faulted the read does return and the flag does drop.
C10_Phase ==
    LET p == pc[MainThread] IN
    IF p \in {"try_setjmp", "fn", "handler"} THEN "RecoveryArmed"
    ELSE IF p = "try_clear_ok" THEN "CompletedSuccess"
    ELSE IF p = "try_else" THEN "CompletedFault"
    ELSE "Idle"

C10_Moves ==
    \/ C10_Phase' = C10_Phase
    \/ C10_Phase = "Idle" /\ C10_Phase' = "RecoveryArmed"
    \/ C10_Phase = "RecoveryArmed" /\ C10_Phase' \in {"CompletedSuccess", "CompletedFault"}
    \/ /\ C10_Phase \in {"CompletedSuccess", "CompletedFault"}
       /\ C10_Phase' = "Idle"
       /\ pc'[MainThread] = "returned"
       /\ ret'[MainThread] = IF C10_Phase = "CompletedSuccess" THEN "true" ELSE "false"

C10_OneOutcome ==
    /\ Flag(MainThread) <=> C10_Phase \in {"RecoveryArmed", "CompletedSuccess"}
    /\ pc[MainThread] = "returned"
         => \/ ret[MainThread] = "true" /\ acc[MainThread] \in {"ok", "wild"}
            \/ ret[MainThread] = "false" /\ acc[MainThread] = "bus"
    /\ pc[MainThread] # "returned" => ret[MainThread] = "none"

C10_Settled == acc[MainThread] \in {"ok", "bus"}

C10_ReadCompletes ==
    /\ [][C10_Moves]_vars
    /\ []C10_OneOutcome
    /\ (C10_Settled ~> pc[MainThread] = "returned")
    /\ ((C10_Settled /\ Flag(MainThread)) ~> ~Flag(MainThread))

C10_Witness ==
    /\ PrevReadFailed
    /\ pc[MainThread] = "returned"
    /\ ret[MainThread] = "true"
    /\ acc[MainThread] = "ok"

\* C11 as stated: a region that was opened is destroyed (exactly once): once
\* main holds an opened region, its mapping is eventually released, unless the
\* process has ended before.
C11_OpenedIsDestroyed ==
    (mainpc = "loop" /\ ~f.null) ~> (released # <<>> \/ ~Running)

\* C11: a region is destroyed at most once and only after it was opened; when
\* it is destroyed, the destructor has released the mapping exactly once
\* (munmap once; on Windows UnmapViewOfFile once, then CloseHandle once),
\* whether or not earlier reads faulted, and the mapping is not left mapped.
C11_ReleasedOnce ==
    /\ released \in {<<>>, <<"munmap">>, <<"UnmapViewOfFile", "CloseHandle">>}
    /\ released # <<>> => (~f.null /\ mainpc = "done" /\ proc.st = "exited")
    /\ (proc.st = "exited" /\ proc.why = "0") => released # <<>>

C11_Witness == released # <<>> /\ PrevReadFailed

\* C12: when open_file failed (stat64, open or mmap), f is the null pointer,
\* no region exists, and main performs no read of any kind through it: it
\* does not reach the size query of line 130 (which faults or yields garbage)
\* and never enters the read loop.
C12_NoReadThroughFailure ==
    f.null => (mainpc \in {"argc", "install", "open", "rng", "done"}
               /\ proc.st # "killed"
               /\ pc[MainThread] = "idle")

\* C13: every offset the driver loop passes to read lies in [0, size - 8]:
\* while main is inside a read on an opened region, the 8 bytes at the offset
\* end at or before the size of the region.
C13_LoopOffsetsInRange ==
    (mainpc = "loop" /\ ~f.null /\ InRead(MainThread))
        => (offset[MainThread] >= 0 /\ offset[MainThread] + SizeOfInt64 <= f.size)

\* thread t, inside the handler with an active recovery point, takes its step
C14_HandlerStep(t) ==
    /\ pc[t] = "handler"
    /\ Flag(t)
    /\ sigbus_jmp_buf[TLS(t)].captured /\ sigbus_jmp_buf[TLS(t)].live
    /\ pc'[t] # pc[t]

\* thread t executes the load of a guarded read
C14_DerefStep(t) ==
    /\ pc[t] = "fn"
    /\ mode[t] # "outer"
    /\ pc'[t] # pc[t] \/ (proc' # proc /\ proc'.by = t)

\* C14: when a fault arrives on a thread with an active recovery point, the
\* handler clears the flag and control continues at the recovery point with
\* the nonzero code SIGBUS, i.e. in the fault branch of safe_mmap_try, the
\* process staying alive; and the load of a guarded read is executed only
\* when no load was executed before in the same call (at most one load per
\* call, no retry after a fault).
C14_JumpsToFaultBranchNoRetry ==
    [][\A t \in Threads :
         /\ C14_HandlerStep(t) =>
              /\ ~sigbus_jmp_set'[TLS(t)]
              /\ pc'[t] = "try_else"
              /\ jmpval'[t] = SIGBUS /\ jmpval'[t] # 0
              /\ proc' = proc
         /\ C14_DerefStep(t) => acc[t] = "none"]_vars

C14_Witness ==
    \E t \in Threads :
        /\ pc[t] = "try_else" /\ mode[t] = "plain"
        /\ acc[t] = "bus" /\ jmpval[t] = SIGBUS /\ ~Flag(t)

\* the handler, running on thread t, takes the jump: the flag was set and is
\* cleared by a step that is not the end of safe_mmap_try
C15_HandlerJumps(t) ==
    /\ Flag(t)
    /\ ~sigbus_jmp_set'[TLS(t)]
    /\ pc'[t] # "returned"

\* C15: whenever the handler jumps to the saved recovery point, for a SIGBUS
\* delivered at any point of the thread's execution, sigbus_jmp_buf was filled
\* by the safe_mmap_try call in progress on that thread: never an unfilled
\* buffer, never one whose call has returned.
C15_JumpTargetIsCurrentCall ==
    [][\A t \in Threads :
         C15_HandlerJumps(t) =>
            /\ sigbus_jmp_buf[TLS(t)].captured
            /\ sigbus_jmp_buf[TLS(t)].live
            /\ sigbus_jmp_buf[TLS(t)].thread = t]_vars

\* C16: a guarded read returns false only when its load raised the storage
\* fault (SIGBUS, EXCEPTION_IN_PAGE_ERROR); a load that faults in any other
\* way (outside the mapping: SIGSEGV, EXCEPTION_ACCESS_VIOLATION) never
\* reaches the handler or the fault branch and is never reported as a failed
\* read: it takes the default action, which ends the process.
C16_OnlyStorageFaultAbsorbed ==
    \A t \in Threads :
        /\ ret[t] = "false" => acc[t] = "bus"
        /\ acc[t] = "wild" =>
             /\ pc[t] \notin {"handler", "try_else"}
             /\ ret[t] # "false"
             /\ \/ result[t] = Garbage
                \/ /\ proc.st = "killed" /\ proc.by = t
                   /\ proc.why \in {"SIGSEGV", "EXCEPTION_ACCESS_VIOLATION"}

C16_Witness ==
    /\ mode[MainThread] = "plain" /\ pc[MainThread] = "fn" /\ Flag(MainThread)
    /\ acc[MainThread] = "wild"
    /\ proc.st = "killed" /\ proc.why = "SIGSEGV"
    /\ sigact.handler = "handle_sigbus"

\* C17: a guarded read that returns false leaves the caller's slot as it was
\* before the call (main's value: never written); the slot is written on the
\* success path only, by the one load of the call, with all 8 bytes of the
\* value; and once the slot is written it is not written again in the call.
C17_SlotWrittenOnSuccessOnly ==
    [][\A t \in Threads :
         /\ (mode'[t] \in {"plain", "windows"} /\ ret'[t] = "false")
               => result'[t] = NoValue
         /\ (mode'[t] \in {"plain", "windows"} /\ ret'[t] = "true")
               => DOMAIN result'[t] = 0..(SizeOfInt64 - 1)
         /\ (mode[t] \in {"plain", "windows"} /\ result'[t] # result[t]
             /\ pc'[t] # "idle" /\ pc[t] # "idle")
               => /\ result[t] = NoValue
                  /\ pc[t] \in {"fn", "win_try"}
                  /\ acc'[t] \in {"ok", "wild"}
                  /\ DOMAIN result'[t] = 0..(SizeOfInt64 - 1)]_vars

C17_Witness ==
    \E t \in Threads :
        /\ Returned(t) /\ ret[t] = "false" /\ acc[t] = "bus"
        /\ result[t] = NoValue

====
